---- MODULE Spec2Model ----
(***************************************************************************)
(* A model of the neume-mapper-extractor front end: the IIIF URL utilities *)
(* (src/utils/iiifUtils.ts), the annotation validator                      *)
(* (src/services/annotationService.ts), the Redux store (src/reducers,     *)
(* src/actions), the upload handler of NeumeViewer, the directory name     *)
(* shown by ExportButton, ExportButton's dialog and the overlay fallback   *)
(* of SimpleReferenceViewer; and of the extraction                         *)
(* pipeline and its ScaleCorrector (export_neumes.py), whose code is not   *)
(* among the sources and which follow the specification.                   *)
(*                                                                         *)
(* Strings are sequences of one-character strings, so that the regular     *)
(* expressions, split, parseInt and the template literals of the source    *)
(* are computed character by character.                                    *)
(***************************************************************************)
EXTENDS Integers, Sequences, FiniteSets, TLC

VARIABLES
    \* --- IIIF URL utilities ---
    url,            \* ImageComponent's url prop
    imageInfo,      \* parseIiifUrl(url), or Null
    regionUrl,      \* createRegionUrl(imageInfo), or Unset
    reparsed,       \* parseIiifUrl(regionUrl), or Unset
    upc,            \* position in the URL utilities' run
    \* --- AnnotationService.validateAnnotations ---
    candidate,      \* the value handed to validateAnnotations
    valid,          \* its result
    vpc,            \* "input" before the call, "validated" after
    \* --- Redux store, fetch thunk, NeumeViewer upload ---
    annotations,    \* store field annotations (JsValue or StoreNull)
    activeSelection,\* store field activeSelection
    fetchState,     \* the fetchAnnotations thunk: idle, pending, done, failed
    uploadProp,     \* NeumeViewer's uploadAnnotations prop: "undefined" or "dispatch"
    readers,        \* files handed to FileReader.readAsText whose onload is pending
    alerted,        \* alert('Invalid JSON file') has been raised
    logged,         \* redux-logger's entry for the last dispatch, or NoDispatch
    inFlightUpload, \* history: the last collection uploaded, once one was uploaded
                    \* while the fetch was in flight; NoUpload before
    \* --- ExportButton's directory name ---
    neumeTypeA,     \* neumeType prop of one ExportButton
    neumeTypeB,     \* neumeType prop of another
    dirA,           \* directory name rendered for neumeTypeA
    dirB,           \* directory name rendered for neumeTypeB
    dpc,            \* "input" before the render, "rendered" after
    \* --- extraction pipeline (export_neumes.py, after the specification) ---
    phase,          \* PipelineController's state
    runNo,          \* which run over the same input and output root this is
    analyzeOnly,    \* the run was started with --analyze-only
    interrupted,    \* an external interrupt has been received in this run
    abortCause,     \* why the controller moved to ABORTED: none, fatal, interrupt
    queue,          \* tasks not yet handed to a worker
    workers,        \* per worker: Idle, or the task in hand and its stage
    files,          \* images completely written under the output root
    ledger,         \* MetadataLedger: the rows appended so far, in order
    filesBefore,    \* files when this run started
    ledgerBefore,   \* ledger when this run started
    completedBefore,\* the run before this one went through every task to DONE
    \* --- ScaleCorrector (after the specification) ---
    box,            \* the template-sourced RegionDescriptor's x, y, width, height
    scale,          \* ScaleConfig: widthScale and heightScale, in tenths
    exact,          \* the pre-clip box, in twentieths of a pixel; Unset before
    corrected,      \* the corrected RegionDescriptor returned; Unset before
    spc,            \* "input", "scaled", "emitted"
    \* --- ExportButton's dialog ---
    showModal,      \* useState(false)
    exporting,      \* useState(false)
    exportComplete, \* useState(false)
    error,          \* useState<string | null>(null)
    timers,         \* pending setTimeout callbacks: seconds left, oldest first
    confirmedSinceOpen, \* history: handleConfirm ran since the last handleExport
    \* --- SimpleReferenceViewer ---
    refNeumeType,   \* the neumeType prop
    showOriginal,   \* useState(true)
    loading,        \* useState(false)
    viewerError,    \* useState<string | null>(null)
    renderedSrc,    \* the src prop of the <img> in the last committed render
    imgSrc,         \* the <img> element's src as the browser reports it
    loadPending,    \* the browser is loading imgSrc
    now,            \* Date.now()
    tried           \* history: overlay options requested since the overlay was shown

urlVars == <<url, imageInfo, regionUrl, reparsed, upc>>
validateVars == <<candidate, valid, vpc>>
storeVars == <<annotations, activeSelection, fetchState, uploadProp, readers, alerted,
               logged, inFlightUpload>>
dirVars == <<neumeTypeA, neumeTypeB, dirA, dirB, dpc>>
pipeVars == <<phase, runNo, analyzeOnly, interrupted, abortCause, queue, workers,
              files, ledger, filesBefore, ledgerBefore, completedBefore>>

scaleVars == <<box, scale, exact, corrected, spc>>

exportVars == <<showModal, exporting, exportComplete, error, timers, confirmedSinceOpen>>

viewerVars == <<refNeumeType, showOriginal, loading, viewerError, renderedSrc, imgSrc,
                loadPending, now, tried>>

vars == <<urlVars, validateVars, storeVars, dirVars, pipeVars, scaleVars, exportVars,
          viewerVars>>

\* what each part of the program leaves alone
exceptUrl == <<validateVars, storeVars, dirVars, pipeVars, scaleVars, exportVars,
    viewerVars>>
exceptValidate == <<urlVars, storeVars, dirVars, pipeVars, scaleVars, exportVars,
    viewerVars>>
exceptStore == <<urlVars, validateVars, dirVars, pipeVars, scaleVars, exportVars,
    viewerVars>>
exceptDir == <<urlVars, validateVars, storeVars, pipeVars, scaleVars, exportVars,
    viewerVars>>
exceptScale == <<urlVars, validateVars, storeVars, dirVars, pipeVars, exportVars,
    viewerVars>>
exceptExport == <<urlVars, validateVars, storeVars, dirVars, pipeVars, scaleVars,
    viewerVars>>
exceptViewer == <<urlVars, validateVars, storeVars, dirVars, pipeVars, scaleVars,
    exportVars>>
exceptPipe == <<urlVars, validateVars, storeVars, dirVars, scaleVars, exportVars,
    viewerVars>>

\***************************************************************************
\* Bounds
\***************************************************************************
MaxCoord == 12      \* region coordinates are drawn from 0..MaxCoord
MaxRawLen == 8      \* arbitrary URLs: every string over RawAlphabet up to this length
MaxRecords == 2     \* annotation collections hold at most this many records
MaxReaders == 1     \* FileReaders whose onload is pending at once
MaxClassLen == 3    \* class (neume type) strings have at most this many characters
MaxTasks == 2       \* images to extract in one annotation input
MaxWorkers == 2     \* concurrent workers of the pool
MaxRuns == 2        \* runs of the pipeline over the same input and output root
MaxOrigin == 7      \* template boxes start at 0, MaxOrigin or the example's origin
MaxSide == 5        \* template boxes have sides 1, MaxSide or the example's side
MaxTimers == 3      \* completion timers of ExportButton pending at once
MaxClock == 2       \* Date.now() takes the values 0..MaxClock
MaxTries == 7       \* overlay requests recorded since the overlay was shown

\***************************************************************************
\* Characters and numbers
\***************************************************************************
Digits == <<"0", "1", "2", "3", "4", "5", "6", "7", "8", "9">>

IsDigit(c) == \E d \in 1..10 : Digits[d] = c

DigitVal(c) == (CHOOSE d \in 1..10 : Digits[d] = c) - 1

\* Number.NaN; every number parseInt reads from [\d]+ is >= 0
NaN == -1

NaNText == <<"N", "a", "N">>

RECURSIVE DecimalValue(_)
DecimalValue(s) ==
    IF s = <<>> THEN 0
    ELSE 10 * DecimalValue(SubSeq(s, 1, Len(s) - 1)) + DigitVal(s[Len(s)])

\* first index at or after i that does not hold a digit (Len(s)+1 at the end)
RunEnd(s, i) ==
    IF i > Len(s) THEN i
    ELSE CHOOSE j \in i..(Len(s) + 1) :
            /\ \A k \in i..(j - 1) : IsDigit(s[k])
            /\ (j = Len(s) + 1 \/ ~IsDigit(s[j]))

\* the digits s[1..e-1] as a number, NaN when there are none
PrefixValue(s, e) == IF e = 1 THEN NaN ELSE DecimalValue(SubSeq(s, 1, e - 1))

\* parseInt(str, 10) on a string without sign or leading blanks
ParseInt(s) == PrefixValue(s, RunEnd(s, 1))

\* `${n}` for a number n
RECURSIVE NumText(_)
NumText(n) ==
    IF n = NaN THEN NaNText
    ELSE IF n < 10 THEN <<Digits[n + 1]>>
    ELSE NumText(n \div 10) \o <<Digits[(n % 10) + 1]>>

\***************************************************************************
\* String.prototype.split
\***************************************************************************
RECURSIVE Split(_, _)
Split(s, sep) ==
    LET hits == {i \in 1..Len(s) : s[i] = sep}
    IN  IF hits = {} THEN <<s>>
        ELSE LET i == CHOOSE h \in hits : \A g \in hits : h <= g
             IN  <<SubSeq(s, 1, i - 1)>> \o Split(SubSeq(s, i + 1, Len(s)), sep)

\***************************************************************************
\* The two regular expressions of parseIiifUrl
\***************************************************************************
\* Positions are indices into the string; 0 stands for "no match".
Least(set) == CHOOSE h \in set : \A g \in set : h <= g

NonEmptyRun(i, e) == IF e > i THEN e ELSE 0

\* [\d]* at i: the index after the (greedy, possibly empty) run
DigitsStar(s, i) == RunEnd(s, i)

\* [\d]+ at i: the index after the (greedy) run, 0 when there is no digit at i
DigitsPlus(s, i) == NonEmptyRun(i, RunEnd(s, i))

\* a comma at e: the index after it
CommaAt(s, e) == IF e # 0 /\ e <= Len(s) /\ s[e] = "," THEN e + 1 ELSE 0

\* [\d]+, at i: the index after the comma
DigitsComma(s, i) == IF i = 0 THEN 0 ELSE CommaAt(s, DigitsPlus(s, i))

LastDigits(s, i) == IF i = 0 THEN 0 ELSE DigitsPlus(s, i)

\* /[\d]+,[\d]+,[\d]+,[\d]+/ anchored at i: the index after the match
DimsMatchAt(s, i) ==
    LastDigits(s, DigitsComma(s, DigitsComma(s, DigitsComma(s, i))))

NoMatch == <<>>

MatchText(s, i) == SubSeq(s, i, DimsMatchAt(s, i) - 1)

LeftmostDims(s, starts) == IF starts = {} THEN NoMatch ELSE MatchText(s, Least(starts))

\* url.match(/[\d]+,[\d]+,[\d]+,[\d]+/): the text of the leftmost match
DimsMatch(s) == LeftmostDims(s, {i \in 1..Len(s) : DimsMatchAt(s, i) # 0})

\* the "." of a regular expression
AnyChar == "ANY"

\* \/64,\/0\/default.jpg
SizeTailPattern ==
    <<"/", "6", "4", ",", "/", "0", "/",
      "d", "e", "f", "a", "u", "l", "t", AnyChar, "j", "p", "g">>

LiteralAt(s, i, pat) ==
    /\ i + Len(pat) - 1 <= Len(s)
    /\ \A k \in 1..Len(pat) : pat[k] = AnyChar \/ s[i + k - 1] = pat[k]

SizeTailAt(s, e) ==
    IF e # 0 /\ LiteralAt(s, e, SizeTailPattern) THEN e + Len(SizeTailPattern) ELSE 0

\* /\/[\d]+,[\d]+,[\d]+,[\d]+\/64,\/0\/default.jpg/ anchored at i
BaseMatchAt(s, i) ==
    IF s[i] # "/" THEN 0 ELSE SizeTailAt(s, DimsMatchAt(s, i + 1))

CutOut(s, i, e) == SubSeq(s, 1, i - 1) \o SubSeq(s, e, Len(s))

CutAt(s, i) == CutOut(s, i, BaseMatchAt(s, i))

CutLeftmost(s, starts) == IF starts = {} THEN s ELSE CutAt(s, Least(starts))

\* url.replace(/\/[\d]+,[\d]+,[\d]+,[\d]+\/64,\/0\/default.jpg/, "")
StripRegion(s) == CutLeftmost(s, {i \in 1..Len(s) : BaseMatchAt(s, i) # 0})

\***************************************************************************
\* parseIiifUrl, createRegionUrl
\***************************************************************************
Null == [kind |-> "null"]

Unset == [kind |-> "unset"]

Unknown == <<"u", "n", "k", "n", "o", "w", "n">>

\* the object parseIiifUrl returns
ImageInfo(baseUrl, dims, urlParts) ==
    [kind |-> "info",
     baseUrl |-> baseUrl,
     x |-> ParseInt(dims[1]),
     y |-> ParseInt(dims[2]),
     width |-> ParseInt(dims[3]),
     height |-> ParseInt(dims[4]),
     pageId |-> IF Len(urlParts) > 6 THEN urlParts[7] ELSE Unknown]

ParseWith(u, dimsMatch) ==
    IF dimsMatch = NoMatch THEN Null
    ELSE ImageInfo(StripRegion(u), Split(dimsMatch, ","), Split(u, "/"))

parseIiifUrl(u) == ParseWith(u, DimsMatch(u))

FullSize == <<"f", "u", "l", "l">>

ZeroDefaultJpg == <<"/", "0", "/", "d", "e", "f", "a", "u", "l", "t", ".", "j", "p", "g">>

createRegionUrl(info, size) ==
    LET region == NumText(info.x) \o <<",">> \o NumText(info.y) \o <<",">>
                  \o NumText(info.width) \o <<",">> \o NumText(info.height)
    IN  info.baseUrl \o <<"/">> \o region \o <<"/">> \o size \o ZeroDefaultJpg

\***************************************************************************
\* URLs handed to ImageComponent
\***************************************************************************
Chars(n) == [1..n -> {"1", ",", "/"}]

\* every string over {1 , /} of at most MaxRawLen characters
RawUrls == UNION {Chars(n) : n \in 0..MaxRawLen}

\* https://example.org/iiif/MS73/page007 (the shape of the design's example)
ExampleBase ==
    <<"h", "t", "t", "p", "s", ":", "/", "/",
      "e", "x", "a", "m", "p", "l", "e", ".", "o", "r", "g", "/",
      "i", "i", "i", "f", "/", "M", "S", "7", "3", "/",
      "p", "a", "g", "e", "0", "0", "7">>

\* https://example.org/iiif/2/MS73/page007 (one more path segment)
DeepBase ==
    <<"h", "t", "t", "p", "s", ":", "/", "/",
      "e", "x", "a", "m", "p", "l", "e", ".", "o", "r", "g", "/",
      "i", "i", "i", "f", "/", "2", "/", "M", "S", "7", "3", "/",
      "p", "a", "g", "e", "0", "0", "7">>

\* https://example.org/iiif/1,2,3,4/page007 (a four-integer run before the region)
CommaBase ==
    <<"h", "t", "t", "p", "s", ":", "/", "/",
      "e", "x", "a", "m", "p", "l", "e", ".", "o", "r", "g", "/",
      "i", "i", "i", "f", "/", "1", ",", "2", ",", "3", ",", "4", "/",
      "p", "a", "g", "e", "0", "0", "7">>

\* http://h (no path before the region)
ShortBase == <<"h", "t", "t", "p", ":", "/", "/", "h">>

Bases == {ExampleBase, DeepBase, CommaBase, ShortBase}

ThumbSize == <<"6", "4", ",">>

LargeSize == <<"1", "2", "8", ",">>

Sizes == {ThumbSize, LargeSize, FullSize}

Coords == {0, 7, MaxCoord}

RegionText(x, y, w, h) ==
    NumText(x) \o <<",">> \o NumText(y) \o <<",">> \o NumText(w) \o <<",">> \o NumText(h)

\* <base>/<x>,<y>,<w>,<h>/<size>/0/default.jpg
RegionUrl(base, x, y, w, h, size) ==
    base \o <<"/">> \o RegionText(x, y, w, h) \o <<"/">> \o size \o ZeroDefaultJpg

RegionUrls ==
    {RegionUrl(b, x, y, w, h, sz) :
        b \in Bases, x \in Coords, y \in Coords, w \in Coords, h \in Coords, sz \in Sizes}

UrlIdle ==
    /\ url = <<>>
    /\ imageInfo = Unset
    /\ regionUrl = <<>>
    /\ reparsed = Unset
    /\ upc = "off"

InitUrlVars ==
    /\ url \in RegionUrls \cup RawUrls
    /\ imageInfo = Unset
    /\ regionUrl = <<>>
    /\ reparsed = Unset
    /\ upc = "input"

\* ImageComponent: const imageInfo = parseIiifUrl(url)
Render ==
    /\ upc = "input"
    /\ imageInfo' = parseIiifUrl(url)
    /\ upc' = "parsed"
    /\ UNCHANGED <<url, regionUrl, reparsed>>

\* createRegionUrl(imageInfo) with its default size
CreateRegion ==
    /\ upc = "parsed"
    /\ imageInfo # Null
    /\ regionUrl' = createRegionUrl(imageInfo, FullSize)
    /\ upc' = "created"
    /\ UNCHANGED <<url, imageInfo, reparsed>>

\* parseIiifUrl on the URL createRegionUrl built
Reparse ==
    /\ upc = "created"
    /\ reparsed' = parseIiifUrl(regionUrl)
    /\ upc' = "done"
    /\ UNCHANGED <<url, imageInfo, regionUrl>>

\***************************************************************************
\* JSON values, as JSON.parse and axios hand them over
\***************************************************************************
JsUndefined == [js |-> "undefined"]

JsNull == [js |-> "null"]

JsNumber == [js |-> "number"]

JsString(t) == [js |-> "string", text |-> t]

JsArray(items) == [js |-> "array", items |-> items]

\* an object with (possibly absent, i.e. undefined) properties type and urls
JsObject(type, urls) == [js |-> "object", type |-> type, urls |-> urls]

\* typeof v
TypeOf(v) == IF v.js \in {"null", "array", "object"} THEN "object" ELSE v.js

\* Array.isArray(v)
IsArray(v) == v.js = "array"

\* item.type, item.urls
TypeProp(v) == IF v.js = "object" THEN v.type ELSE JsUndefined

UrlsProp(v) == IF v.js = "object" THEN v.urls ELSE JsUndefined

TypeFields == {JsUndefined, JsNumber, JsString(""), JsString("Virga"), JsString("Pes")}

UrlsFields ==
    {JsUndefined, JsString("u"), JsArray(<<>>), JsArray(<<JsString("u")>>)}

Items ==
    {JsNull, JsNumber, JsString("Virga")}
        \cup {JsObject(t, u) : t \in TypeFields, u \in UrlsFields}

Collections(n) == UNION {{JsArray(items) : items \in [1..k -> Items]} : k \in 0..n}

\* values that are not arrays
NonArrays == {JsNull, JsString("Virga"), JsObject(JsString("Virga"), JsArray(<<JsString("u")>>))}

\***************************************************************************
\* AnnotationService.validateAnnotations
\***************************************************************************
\* the predicate of annotations.every(...)
ItemOk(item) ==
    /\ TypeOf(item) = "object"
    /\ item.js # "null"
    /\ TypeOf(TypeProp(item)) = "string"
    /\ IsArray(UrlsProp(item))

validateAnnotations(a) ==
    IF ~IsArray(a) THEN FALSE
    ELSE \A i \in 1..Len(a.items) : ItemOk(a.items[i])

ValidateIdle ==
    /\ candidate = JsNull
    /\ valid = FALSE
    /\ vpc = "off"

InitValidateVars ==
    /\ candidate \in Collections(MaxRecords) \cup NonArrays
    /\ valid = FALSE
    /\ vpc = "input"

Validate ==
    /\ vpc = "input"
    /\ valid' = validateAnnotations(candidate)
    /\ vpc' = "validated"
    /\ UNCHANGED candidate

\***************************************************************************
\* Redux store: reducers and action creators
\***************************************************************************
FETCH_ANNOTATIONS == "FETCH_ANNOTATIONS"

SWITCH_ACTIVE_SELECTION == "SWITCH_ACTIVE_SELECTION"

UPLOAD_ANNOTATIONS == "UPLOAD_ANNOTATIONS"

annotationsReducer(state, action) ==
    IF action.type = FETCH_ANNOTATIONS THEN action.payload
    ELSE IF action.type = UPLOAD_ANNOTATIONS THEN action.payload
    ELSE state

\* a variant that clears the selection when a new collection is uploaded
activeSelectionResetOnUpload(state, action) ==
    IF action.type = SWITCH_ACTIVE_SELECTION THEN action.payload
    ELSE IF action.type = UPLOAD_ANNOTATIONS THEN ""
    ELSE state

activeSelectionReducer(state, action) ==
    IF action.type = SWITCH_ACTIVE_SELECTION THEN action.payload
    ELSE state

switchActiveSelection(neumeType) ==
    [type |-> SWITCH_ACTIVE_SELECTION, payload |-> neumeType]

uploadAnnotations(data) == [type |-> UPLOAD_ANNOTATIONS, payload |-> data]

\* an action of a type no reducer names, such as redux's own @@redux/INIT
OtherAction == [type |-> "@@redux/INIT", payload |-> JsUndefined]

RootState(a, sel) == [annotations |-> a, activeSelection |-> sel]
NoDispatch == [action |-> "none"]

\* what the user uploaded while the request was in flight
NoUpload == [uploaded |-> FALSE]
Uploaded(data) == [uploaded |-> TRUE, payload |-> data]

\* redux-logger: the state before, the action, the state after
LogEntry(prev, action, next) == [prev |-> prev, action |-> action, next |-> next]

\* store.dispatch(action) through combineReducers, logged by redux-logger
Dispatch(action) ==
    /\ annotations' = annotationsReducer(annotations, action)
    /\ activeSelection' = activeSelectionReducer(activeSelection, action)
    /\ logged' = LogEntry(RootState(annotations, activeSelection), action,
                          RootState(annotationsReducer(annotations, action),
                                    activeSelectionReducer(activeSelection, action)))

\***************************************************************************
\* What the server and the user's files hold
\***************************************************************************
VirgaRecord == JsObject(JsString("Virga"), JsArray(<<JsString("u")>>))

PesRecord == JsObject(JsString("Pes"), JsArray(<<JsString("u")>>))

\* a record without a type and without urls
BareRecord == JsObject(JsUndefined, JsUndefined)

Payloads ==
    {JsArray(<<VirgaRecord>>), JsArray(<<PesRecord>>), JsArray(<<BareRecord>>),
     JsArray(<<>>), VirgaRecord}

\* a file's text: empty, not JSON, or the JSON text of a value
EmptyFile == [text |-> "empty"]

GarbageFile == [text |-> "garbage"]

JsonFile(v) == [text |-> "json", value |-> v]

Files == {EmptyFile, GarbageFile} \cup {JsonFile(v) : v \in Payloads}

\***************************************************************************
\* NeumeViewer
\***************************************************************************
\* NeumeViewer's render returns without throwing: the upload card when the
\* store holds no annotations, else filter, find and the options' labels
RenderOk(a) ==
    \/ a = JsNull
    \/ /\ IsArray(a)
       /\ \A i \in 1..Len(a.items) :
            /\ a.items[i].js = "object"
            /\ TypeProp(a.items[i]).js = "string"
            /\ UrlsProp(a.items[i]).js \in {"array", "string"}

\* the values of the <option>s of the neume type select
OptionValues(a) == {""} \cup {TypeProp(a.items[i]).text : i \in 1..Len(a.items)}

RemoveAt(q, i) == SubSeq(q, 1, i - 1) \o SubSeq(q, i + 1, Len(q))

StoreIdle ==
    /\ annotations = JsNull
    /\ activeSelection = ""
    /\ fetchState = "off"
    /\ uploadProp = "undefined"
    /\ readers = <<>>
    /\ alerted = FALSE
    /\ logged = NoDispatch
    /\ inFlightUpload = NoUpload

\* connect(mapStateToProps, {switchActiveSelection}) binds no uploadAnnotations:
\* the prop is what NeumeViewer's parent passes, a dispatching function or nothing
InitStoreVars ==
    /\ annotations = JsNull
    /\ activeSelection = ""
    /\ fetchState = "idle"
    /\ uploadProp \in {"undefined", "dispatch"}
    /\ readers = <<>>
    /\ alerted = FALSE
    /\ logged = NoDispatch
    /\ inFlightUpload = NoUpload

\* fetchAnnotations(): the thunk starts axios.get
FetchRequest ==
    /\ fetchState = "idle"
    /\ fetchState' = "pending"
    /\ UNCHANGED <<annotations, activeSelection, logged, uploadProp, inFlightUpload, readers, alerted>>

\* the request resolves: dispatch({type: FETCH_ANNOTATIONS, payload: response.data})
FetchResolve ==
    /\ fetchState = "pending"
    /\ \E data \in Payloads :
          Dispatch([type |-> FETCH_ANNOTATIONS, payload |-> data])
    /\ fetchState' = "done"
    /\ UNCHANGED <<uploadProp, inFlightUpload, readers, alerted>>

\* the request rejects: console.error, nothing dispatched
FetchReject ==
    /\ fetchState = "pending"
    /\ fetchState' = "failed"
    /\ UNCHANGED <<annotations, activeSelection, logged, uploadProp, inFlightUpload, readers, alerted>>

\* handleFileUpload: reader.readAsText(files[0])
HandleFileUpload ==
    /\ RenderOk(annotations)
    /\ Len(readers) < MaxReaders
    /\ \E file \in Files : readers' = Append(readers, file)
    /\ UNCHANGED <<annotations, activeSelection, logged, fetchState, uploadProp, inFlightUpload, alerted>>

\* reader.onload with an empty result: return
OnloadEmpty(i) ==
    /\ readers[i].text = "empty"
    /\ readers' = RemoveAt(readers, i)
    /\ UNCHANGED <<annotations, activeSelection, logged, fetchState, uploadProp, inFlightUpload, alerted>>

\* reader.onload: JSON.parse throws, or the call of the undefined prop
\* uploadAnnotations throws; the catch block alerts
OnloadAlert(i) ==
    /\ \/ readers[i].text = "garbage"
       \/ readers[i].text = "json" /\ uploadProp = "undefined"
    /\ readers' = RemoveAt(readers, i)
    /\ alerted' = TRUE
    /\ UNCHANGED <<annotations, activeSelection, logged, fetchState, uploadProp, inFlightUpload>>

\* reader.onload: uploadAnnotations(parsedData) reaches the store
OnloadDispatch(i) ==
    /\ readers[i].text = "json"
    /\ uploadProp = "dispatch"
    /\ readers' = RemoveAt(readers, i)
    /\ Dispatch(uploadAnnotations(readers[i].value))
    /\ inFlightUpload' = IF fetchState = "pending" \/ inFlightUpload # NoUpload
                         THEN Uploaded(readers[i].value)
                         ELSE inFlightUpload
    /\ UNCHANGED <<fetchState, uploadProp, alerted>>

ReaderOnload ==
    \E i \in 1..Len(readers) : OnloadEmpty(i) \/ OnloadAlert(i) \/ OnloadDispatch(i)

\* an action of another type is dispatched (redux's @@redux/INIT, a probe of
\* combineReducers): both reducers take their default branch
DispatchOther ==
    /\ Dispatch(OtherAction)
    /\ UNCHANGED <<fetchState, uploadProp, inFlightUpload, readers, alerted>>

\* the neume type select's onChange
SelectNeumeType ==
    /\ annotations # JsNull
    /\ RenderOk(annotations)
    /\ \E t \in OptionValues(annotations) : Dispatch(switchActiveSelection(t))
    /\ UNCHANGED <<fetchState, uploadProp, inFlightUpload, readers, alerted>>

\***************************************************************************
\* ExportButton: the directory name it renders
\***************************************************************************
\* \s
IsSpace(c) == c \in {" ", "\t", "\n"}

\* neumeType.replace(/\s+/g, '_')
RECURSIVE ReplaceSpaces(_, _)
ReplaceSpaces(s, inRun) ==
    IF s = <<>> THEN <<>>
    ELSE IF IsSpace(Head(s))
         THEN (IF inRun THEN <<>> ELSE <<"_">>) \o ReplaceSpaces(Tail(s), TRUE)
         ELSE <<Head(s)>> \o ReplaceSpaces(Tail(s), FALSE)

ExportDirName(neumeType) == ReplaceSpaces(neumeType, FALSE)

ClassChars == {"A", " ", "_", "/", "."}

ClassStrings == UNION {[1..n -> ClassChars] : n \in 0..MaxClassLen}

DirIdle ==
    /\ neumeTypeA = <<>>
    /\ neumeTypeB = <<>>
    /\ dirA = <<>>
    /\ dirB = <<>>
    /\ dpc = "off"

InitDirVars ==
    /\ neumeTypeA \in ClassStrings
    /\ neumeTypeB \in ClassStrings
    /\ dirA = <<>>
    /\ dirB = <<>>
    /\ dpc = "input"

\* the two ExportButtons render public/exported_neumes/<dir>
RenderDirs ==
    /\ dpc = "input"
    /\ dirA' = ExportDirName(neumeTypeA)
    /\ dirB' = ExportDirName(neumeTypeB)
    /\ dpc' = "rendered"
    /\ UNCHANGED <<neumeTypeA, neumeTypeB>>

\***************************************************************************
\* Extraction pipeline (export_neumes.py; its code is not part of the
\* sources at hand, so this part follows the specification's sections 4-8)
\***************************************************************************
Tasks == 1..MaxTasks        \* one task per (class, page, sequence index)
Workers == 1..MaxWorkers    \* WorkerPool
MaxAttempts == 3            \* bounded retry of a transient FetchError

Phases == <<"INIT", "LOADING", "VALIDATING", "EXTRACTING", "FINALIZING", "DONE">>
Terminal == {"DONE", "ABORTED"}

Idle == [task |-> 0, stage |-> "idle", attempts |-> 0]
InHand(t, stage, attempts) == [task |-> t, stage |-> stage, attempts |-> attempts]

\* a variant that never looks at the output root
NeverMaterialized(t) == FALSE

\* OutputOrganizer: the task's path is already materialized under the root
Materialized(t) == t \in files
\* MetadataLedger: the task has a row
Logged(t) == \E k \in 1..Len(ledger) : ledger[k] = t

AllIdle == \A w \in Workers : workers[w] = Idle

PipeIdle ==
    /\ phase = "INIT"
    /\ runNo = 0
    /\ analyzeOnly = FALSE
    /\ interrupted = FALSE
    /\ abortCause = "none"
    /\ queue = {}
    /\ workers = <<>>
    /\ files = {}
    /\ ledger = <<>>
    /\ filesBefore = {}
    /\ ledgerBefore = <<>>
    /\ completedBefore = FALSE

\* a first run over an empty output root
InitPipeVars ==
    /\ phase = "INIT"
    /\ runNo = 1
    /\ analyzeOnly \in BOOLEAN
    /\ interrupted = FALSE
    /\ abortCause = "none"
    /\ queue = {}
    /\ workers = [w \in Workers |-> Idle]
    /\ files = {}
    /\ ledger = <<>>
    /\ filesBefore = {}
    /\ ledgerBefore = <<>>
    /\ completedBefore = FALSE

\* INIT -> LOADING: the configuration is accepted
StartRun ==
    /\ phase = "INIT"
    /\ phase' = "LOADING"
    /\ UNCHANGED <<runNo, analyzeOnly, interrupted, abortCause, queue, workers,
                   files, ledger, filesBefore, ledgerBefore, completedBefore>>

\* LOADING -> VALIDATING: the annotation source has been read
LoadAnnotations ==
    /\ phase = "LOADING"
    /\ phase' = "VALIDATING"
    /\ UNCHANGED <<runNo, analyzeOnly, interrupted, abortCause, queue, workers,
                   files, ledger, filesBefore, ledgerBefore, completedBefore>>

\* VALIDATING -> EXTRACTING: the valid records become the run's tasks
ValidateRecords ==
    /\ phase = "VALIDATING"
    /\ ~analyzeOnly
    /\ phase' = "EXTRACTING"
    /\ queue' = Tasks
    /\ UNCHANGED <<runNo, analyzeOnly, interrupted, abortCause, workers,
                   files, ledger, filesBefore, ledgerBefore, completedBefore>>

\* --analyze-only: counts per class are reported and nothing is extracted
ReportCounts ==
    /\ phase = "VALIDATING"
    /\ analyzeOnly
    /\ phase' = "DONE"
    /\ UNCHANGED <<runNo, analyzeOnly, interrupted, abortCause, queue, workers,
                   files, ledger, filesBefore, ledgerBefore, completedBefore>>

\* WorkerPool hands a queued task to an idle worker; none after an interrupt
TakeTask(w) ==
    /\ phase = "EXTRACTING"
    /\ ~interrupted
    /\ workers[w] = Idle
    /\ \E t \in queue :
        /\ queue' = queue \ {t}
        /\ workers' = [workers EXCEPT ![w] = InHand(t, "fetching", 1)]
    /\ UNCHANGED <<phase, runNo, analyzeOnly, interrupted, abortCause,
                   files, ledger, filesBefore, ledgerBefore, completedBefore>>

\* FetchCropExecutor: the region's bytes arrive and are cropped
FetchOk(w) ==
    /\ phase = "EXTRACTING"
    /\ workers[w].stage = "fetching"
    /\ workers' = [workers EXCEPT ![w].stage = "cropped"]
    /\ UNCHANGED <<phase, runNo, analyzeOnly, interrupted, abortCause, queue,
                   files, ledger, filesBefore, ledgerBefore, completedBefore>>

\* a transient FetchError: retried while attempts remain
FetchRetry(w) ==
    /\ phase = "EXTRACTING"
    /\ workers[w].stage = "fetching"
    /\ workers[w].attempts < MaxAttempts
    /\ workers' = [workers EXCEPT ![w].attempts = @ + 1]
    /\ UNCHANGED <<phase, runNo, analyzeOnly, interrupted, abortCause, queue,
                   files, ledger, filesBefore, ledgerBefore, completedBefore>>

\* MalformedRegion, a permanent FetchError or retries exhausted: the record
\* is skipped and nothing is written for it
SkipFailed(w) ==
    /\ phase = "EXTRACTING"
    /\ workers[w].stage = "fetching"
    /\ workers' = [workers EXCEPT ![w] = Idle]
    /\ UNCHANGED <<phase, runNo, analyzeOnly, interrupted, abortCause, queue,
                   files, ledger, filesBefore, ledgerBefore, completedBefore>>

\* OutputOrganizer writes the bytes to the task's path
StoreFile(w) ==
    /\ phase = "EXTRACTING"
    /\ workers[w].stage = "cropped"
    /\ ~Materialized(workers[w].task)
    /\ files' = files \cup {workers[w].task}
    /\ workers' = [workers EXCEPT ![w].stage = "stored"]
    /\ UNCHANGED <<phase, runNo, analyzeOnly, interrupted, abortCause, queue,
                   ledger, filesBefore, ledgerBefore, completedBefore>>

\* a collision with a file and row of an earlier run: skipped, not overwritten
SkipExisting(w) ==
    /\ phase = "EXTRACTING"
    /\ workers[w].stage = "cropped"
    /\ Materialized(workers[w].task)
    /\ Logged(workers[w].task)
    /\ workers' = [workers EXCEPT ![w] = Idle]
    /\ UNCHANGED <<phase, runNo, analyzeOnly, interrupted, abortCause, queue,
                   files, ledger, filesBefore, ledgerBefore, completedBefore>>

\* a file extracted but left unlogged by an earlier run is claimed again
Reclaim(w) ==
    /\ phase = "EXTRACTING"
    /\ workers[w].stage = "cropped"
    /\ Materialized(workers[w].task)
    /\ ~Logged(workers[w].task)
    /\ workers' = [workers EXCEPT ![w].stage = "stored"]
    /\ UNCHANGED <<phase, runNo, analyzeOnly, interrupted, abortCause, queue,
                   files, ledger, filesBefore, ledgerBefore, completedBefore>>

\* a variant that appends as soon as the crop is in memory
AppendEarly(w) ==
    /\ phase = "EXTRACTING"
    /\ workers[w].stage \in {"cropped", "stored"}
    /\ ledger' = Append(ledger, workers[w].task)
    /\ workers' = [workers EXCEPT ![w] = Idle]
    /\ UNCHANGED <<phase, runNo, analyzeOnly, interrupted, abortCause, queue,
                   files, filesBefore, ledgerBefore, completedBefore>>

\* MetadataLedger.append, strictly after the crop was stored
AppendRow(w) ==
    /\ phase = "EXTRACTING"
    /\ workers[w].stage = "stored"
    /\ ledger' = Append(ledger, workers[w].task)
    /\ workers' = [workers EXCEPT ![w] = Idle]
    /\ UNCHANGED <<phase, runNo, analyzeOnly, interrupted, abortCause, queue,
                   files, filesBefore, ledgerBefore, completedBefore>>

\* an external interrupt: no new task is dispatched, tasks in hand complete
Interrupt ==
    /\ phase = "EXTRACTING"
    /\ ~interrupted
    /\ interrupted' = TRUE
    /\ UNCHANGED <<phase, runNo, analyzeOnly, abortCause, queue, workers,
                   files, ledger, filesBefore, ledgerBefore, completedBefore>>

\* EXTRACTING -> FINALIZING: every task is done, or (after an interrupt)
\* every task in hand is done and the run ends as a partial DONE
FinishExtracting ==
    /\ phase = "EXTRACTING"
    /\ AllIdle
    /\ queue = {} \/ interrupted
    /\ phase' = "FINALIZING"
    /\ UNCHANGED <<runNo, analyzeOnly, interrupted, abortCause, queue, workers,
                   files, ledger, filesBefore, ledgerBefore, completedBefore>>

\* a variant that answers the interrupt whenever it is noticed
AbortWheneverInterrupted ==
    /\ interrupted
    /\ AllIdle
    /\ phase # "ABORTED"
    /\ phase' = "ABORTED"
    /\ abortCause' = "interrupt"
    /\ UNCHANGED <<runNo, analyzeOnly, interrupted, queue, workers,
                   files, ledger, filesBefore, ledgerBefore, completedBefore>>

\* EXTRACTING -> ABORTED: after an interrupt, once the tasks in hand are done
AbortOnInterrupt ==
    /\ phase = "EXTRACTING"
    /\ interrupted
    /\ AllIdle
    /\ phase' = "ABORTED"
    /\ abortCause' = "interrupt"
    /\ UNCHANGED <<runNo, analyzeOnly, interrupted, queue, workers,
                   files, ledger, filesBefore, ledgerBefore, completedBefore>>

\* FINALIZING -> DONE: the ledger is flushed and the summary emitted
Finalize ==
    /\ phase = "FINALIZING"
    /\ phase' = "DONE"
    /\ UNCHANGED <<runNo, analyzeOnly, interrupted, abortCause, queue, workers,
                   files, ledger, filesBefore, ledgerBefore, completedBefore>>

\* a fatal error (bad configuration, unreadable annotation source, unwritable
\* output root, WriteError): the run aborts at once, the ledger is left as it is
Fatal ==
    /\ phase \notin Terminal
    /\ phase' = "ABORTED"
    /\ abortCause' = "fatal"
    /\ UNCHANGED <<runNo, analyzeOnly, interrupted, queue, workers,
                   files, ledger, filesBefore, ledgerBefore, completedBefore>>

\* the pipeline is started again over the same input and the same output root
NextRun ==
    /\ phase \in Terminal
    /\ runNo < MaxRuns
    /\ runNo' = runNo + 1
    /\ phase' = "INIT"
    /\ analyzeOnly' \in BOOLEAN
    /\ interrupted' = FALSE
    /\ abortCause' = "none"
    /\ queue' = {}
    /\ workers' = [w \in Workers |-> Idle]
    /\ filesBefore' = files
    /\ ledgerBefore' = ledger
    /\ completedBefore' = (phase = "DONE" /\ ~analyzeOnly /\ ~interrupted)
    /\ UNCHANGED <<files, ledger>>

\***************************************************************************
\* ScaleCorrector (part of export_neumes.py; follows the specification's
\* sections 3 and 4.2).  Scales are positive reals: they are held in tenths,
\* and the pre-clip box in twentieths of a pixel, so that every product and
\* every half of the algorithm is exact.  A RegionDescriptor's fields are
\* integers; the specification names no rounding, so each field of the
\* returned descriptor is rounded down or up.
\***************************************************************************
Unit == 20                  \* twentieths of a pixel
DefaultScale == 18          \* 1.8
DenseWidthScale == 25       \* --width-scale 2.5
DenseHeightScale == 27      \* --height-scale 2.7
Scales == {DefaultScale, DenseWidthScale, DenseHeightScale}

Box(x, y, width, height) == [x |-> x, y |-> y, width |-> width, height |-> height]
ExampleBox == Box(100, 100, 50, 50)
Origins == {0, MaxOrigin, ExampleBox.x}
Sides == {1, MaxSide, ExampleBox.width}

\* w' = width * widthScale, in twentieths
ScaledSide(side, s) == 2 * side * s

\* a variant that takes (x, y) for the centre of the box
RecentreAboutOrigin(origin, side, scaled) == Unit * origin - scaled \div 2

\* a variant that moves the origin by the whole growth
RecentreByGrowth(origin, side, scaled) == Unit * origin - (scaled - Unit * side)

\* x' = x - (w' - width)/2, in twentieths
Recentre(origin, side, scaled) == Unit * origin - (scaled - Unit * side) \div 2

\* the pre-clip box of the algorithm
Expand(b, sc) ==
    Box(Recentre(b.x, b.width, ScaledSide(b.width, sc.widthScale)),
        Recentre(b.y, b.height, ScaledSide(b.height, sc.heightScale)),
        ScaledSide(b.width, sc.widthScale),
        ScaledSide(b.height, sc.heightScale))

\* clip x', y' to >= 0, shrinking from the side that overflows; the page
\* extent is not known here, so the far sides are left as they are
ClipOrigin(origin) == IF origin < 0 THEN 0 ELSE origin
ClipSide(origin, side) == IF origin < 0 THEN side + origin ELSE side
ClipBox(e) ==
    Box(ClipOrigin(e.x), ClipOrigin(e.y), ClipSide(e.x, e.width), ClipSide(e.y, e.height))

\* a value in twentieths as an integer field: rounded down or up
RoundDown(v) == v \div Unit
RoundUp(v) == -((-v) \div Unit)
Roundings(v) == {RoundDown(v), RoundUp(v)}

ScaleIdle ==
    /\ box = Box(0, 0, 1, 1)
    /\ scale = [widthScale |-> DefaultScale, heightScale |-> DefaultScale]
    /\ exact = Unset
    /\ corrected = Unset
    /\ spc = "idle"

InitScaleVars ==
    /\ box \in {Box(x, y, w, h) : x \in Origins, y \in Origins, w \in Sides, h \in Sides}
    /\ scale \in [widthScale : Scales, heightScale : Scales]
    /\ exact = Unset
    /\ corrected = Unset
    /\ spc = "input"

\* new sizes and recentring
ApplyScale ==
    /\ spc = "input"
    /\ exact' = Expand(box, scale)
    /\ spc' = "scaled"
    /\ UNCHANGED <<box, scale, corrected>>

\* clipping, and the corrected RegionDescriptor with its integer fields
Emit ==
    /\ spc = "scaled"
    /\ \E x \in Roundings(ClipBox(exact).x), y \in Roundings(ClipBox(exact).y),
          w \in Roundings(ClipBox(exact).width), h \in Roundings(ClipBox(exact).height) :
            corrected' = Box(x, y, w, h)
    /\ spc' = "emitted"
    /\ UNCHANGED <<box, scale, exact>>

\***************************************************************************
\* ExportButton's dialog (src/components/ExportButton.tsx)
\***************************************************************************
NoError == "null"
TimerDelay == 2             \* setTimeout(..., 2000), in seconds

\* a variant whose footer always renders the Export button
ExportButtonAlways == TRUE

\* Modal.Footer: {!exporting && !exportComplete && <Button onClick={handleConfirm}>}
ExportButtonRendered == ~exporting /\ ~exportComplete

\* the component is not rendered
ExportIdle ==
    /\ showModal = FALSE
    /\ exporting = FALSE
    /\ exportComplete = FALSE
    /\ error = NoError
    /\ timers = <<>>
    /\ confirmedSinceOpen = FALSE

\* the four useState initial values
InitExportVars ==
    /\ showModal = FALSE
    /\ exporting = FALSE
    /\ exportComplete = FALSE
    /\ error = NoError
    /\ timers = <<>>
    /\ confirmedSinceOpen = FALSE

\* "Export N images" is clicked (the open dialog's backdrop covers the button)
handleExport ==
    /\ ~showModal
    /\ showModal' = TRUE
    /\ confirmedSinceOpen' = FALSE
    /\ UNCHANGED <<exporting, exportComplete, error, timers>>

\* the dialog's Export button is clicked
handleConfirm ==
    /\ showModal
    /\ ExportButtonRendered
    /\ Len(timers) < MaxTimers
    /\ exporting' = TRUE
    /\ error' = NoError
    /\ timers' = Append(timers, TimerDelay)
    /\ confirmedSinceOpen' = TRUE
    /\ UNCHANGED <<showModal, exportComplete>>

\* Cancel, Close or onHide; no timer is cleared
handleClose ==
    /\ showModal
    /\ showModal' = FALSE
    /\ exporting' = FALSE
    /\ exportComplete' = FALSE
    /\ error' = NoError
    /\ UNCHANGED <<timers, confirmedSinceOpen>>

\* a second passes and no pending timer is due
Tick ==
    /\ timers # <<>>
    /\ \A k \in 1..Len(timers) : timers[k] > 0
    /\ timers' = [k \in 1..Len(timers) |-> timers[k] - 1]
    /\ UNCHANGED <<showModal, exporting, exportComplete, error, confirmedSinceOpen>>

\* the oldest timer is due: its callback runs
TimerFires ==
    /\ timers # <<>>
    /\ Head(timers) = 0
    /\ timers' = Tail(timers)
    /\ exporting' = FALSE
    /\ exportComplete' = TRUE
    /\ UNCHANGED <<showModal, error, confirmedSinceOpen>>

\***************************************************************************
\* SimpleReferenceViewer (src/components/SimpleReferenceViewer.tsx).  The
\* overlay images are missing: every load of an overlay option fails.
\***************************************************************************
OverlayAutoWeb ==
    <<"/", "r", "e", "f", "e", "r", "e", "n", "c", "e", "_", "i", "m", "a",
      "g", "e", "s", "/", "S", "G", "_", "3", "9", "0", "-", "0", "0", "7",
      "_", "o", "v", "e", "r", "l", "a", "y", "_", "a", "u", "t", "o", "_",
      "w", "e", "b", ".", "j", "p", "g">>
OverlayAuto ==
    <<"/", "r", "e", "f", "e", "r", "e", "n", "c", "e", "_", "i", "m", "a",
      "g", "e", "s", "/", "S", "G", "_", "3", "9", "0", "-", "0", "0", "7",
      "_", "o", "v", "e", "r", "l", "a", "y", "_", "a", "u", "t", "o", ".",
      "j", "p", "g">>
OverlayFixed ==
    <<"/", "r", "e", "f", "e", "r", "e", "n", "c", "e", "_", "i", "m", "a",
      "g", "e", "s", "/", "S", "G", "_", "3", "9", "0", "-", "0", "0", "7",
      "_", "o", "v", "e", "r", "l", "a", "y", "_", "f", "i", "x", "e", "d",
      ".", "j", "p", "g">>
OverlayPlain ==
    <<"/", "r", "e", "f", "e", "r", "e", "n", "c", "e", "_", "i", "m", "a",
      "g", "e", "s", "/", "S", "G", "_", "3", "9", "0", "-", "0", "0", "7",
      "_", "o", "v", "e", "r", "l", "a", "y", ".", "j", "p", "g">>
OverlayStem ==
    <<"/", "r", "e", "f", "e", "r", "e", "n", "c", "e", "_", "i", "m", "a",
      "g", "e", "s", "/", "S", "G", "_", "3", "9", "0", "-", "0", "0", "7",
      "_", "o", "v", "e", "r", "l", "a", "y", "_">>
DotJpg == <<".", "j", "p", "g">>
originalImagePath ==
    <<"/", "r", "e", "f", "e", "r", "e", "n", "c", "e", "_", "i", "m", "a",
      "g", "e", "s", "/", "S", "G", "_", "3", "9", "0", "-", "0", "0", "7",
      ".", "j", "p", "g">>
CouldNotLoad == "Could not load any overlay images"

\* the five patterns, in order of preference
overlayOptions(neumeType) ==
    <<OverlayAutoWeb, OverlayAuto, OverlayFixed, OverlayPlain,
      OverlayStem \o ReplaceSpaces(neumeType, FALSE) \o DotJpg>>

\* the page's origin, which the browser puts before a path assigned to src
Origin == <<"h", "t", "t", "p", ":", "/", "/", "h">>

\* `?t=${Date.now()}`
TimeParam(t) == <<"?", "t", "=">> \o NumText(t)

\* the src prop of the <img> in a render
SrcProp(original, neumeType, t) ==
    (IF original THEN originalImagePath ELSE overlayOptions(neumeType)[1]) \o TimeParam(t)

\* String.prototype.endsWith
EndsWith(str, suffix) ==
    /\ Len(suffix) <= Len(str)
    /\ SubSeq(str, Len(str) - Len(suffix) + 1, Len(str)) = suffix

\* overlayOptions.findIndex(path => currentSrc.endsWith(path)), counted from 1;
\* 0 stands for -1
FindIndexOf(hits) == IF hits = {} THEN 0 ELSE Least(hits)
FindIndex(options, currentSrc) ==
    FindIndexOf({k \in 1..Len(options) : EndsWith(currentSrc, options[k])})

\* e.currentTarget.src.split('?')[0]
CurrentSrc(src) == Split(src, "?")[1]

RefNeumeTypes ==
    {<<"p", "e", "s">>, <<"a", "u", "t", "o">>, <<"a", " ", "b">>, <<"a", "?", "b">>}

ViewerIdle ==
    /\ refNeumeType = <<>>
    /\ showOriginal = TRUE
    /\ loading = FALSE
    /\ viewerError = NoError
    /\ renderedSrc = <<>>
    /\ imgSrc = <<>>
    /\ loadPending = FALSE
    /\ now = 0
    /\ tried = <<>>

\* the first render: the original image is requested
InitViewerVars ==
    /\ refNeumeType \in RefNeumeTypes
    /\ showOriginal = TRUE
    /\ loading = FALSE
    /\ viewerError = NoError
    /\ now = 0
    /\ renderedSrc = SrcProp(TRUE, refNeumeType, 0)
    /\ imgSrc = Origin \o SrcProp(TRUE, refNeumeType, 0)
    /\ loadPending = TRUE
    /\ tried = <<>>

\* React commits a render whose <img> has the src prop `prop`: the element's
\* src is set, and the image requested again, when the prop is not the one of
\* the last render; record is what the history gains by the request
Commit(prop, record) ==
    /\ renderedSrc' = prop
    /\ IF prop # renderedSrc
       THEN /\ imgSrc' = Origin \o prop
            /\ loadPending' = TRUE
            /\ tried' = tried \o record
       ELSE /\ loadPending' = FALSE
            /\ UNCHANGED <<imgSrc, tried>>

\* a state setter gave every state its present value: React renders nothing
NoRender ==
    /\ loadPending' = FALSE
    /\ UNCHANGED <<renderedSrc, imgSrc, tried>>

\* the toggle button is clicked
toggleView ==
    /\ showOriginal' = ~showOriginal
    /\ loading' = TRUE
    /\ viewerError' = NoError
    /\ renderedSrc' = SrcProp(~showOriginal, refNeumeType, now)
    /\ imgSrc' = Origin \o SrcProp(~showOriginal, refNeumeType, now)
    /\ loadPending' = TRUE
    /\ tried' = IF showOriginal THEN <<1>> ELSE <<>>
    /\ UNCHANGED <<refNeumeType, now>>

\* onLoad: the original image has loaded
handleImageLoad ==
    /\ loadPending
    /\ showOriginal
    /\ loading' = FALSE
    /\ IF loading THEN Commit(SrcProp(TRUE, refNeumeType, now), <<>>) ELSE NoRender
    /\ UNCHANGED <<refNeumeType, showOriginal, viewerError, now>>

\* the original image fails: onError is undefined while it is shown
OriginalFails ==
    /\ loadPending
    /\ showOriginal
    /\ loadPending' = FALSE
    /\ UNCHANGED <<refNeumeType, showOriginal, loading, viewerError, renderedSrc,
                   imgSrc, now, tried>>

\* handleImageError, currentIndex >= 0 && currentIndex < length - 1
TryNextOption(options, currentIndex) ==
    /\ currentIndex >= 1
    /\ currentIndex < Len(options)
    /\ imgSrc' = Origin \o options[currentIndex + 1] \o TimeParam(now)
    /\ tried' = Append(tried, currentIndex + 1)
    /\ UNCHANGED <<refNeumeType, showOriginal, loading, viewerError, renderedSrc,
                   loadPending, now>>

\* handleImageError, else branch: setLoading(false), setError(...), and the
\* render that follows when either state changed
GiveUp(options, currentIndex) ==
    /\ ~(currentIndex >= 1 /\ currentIndex < Len(options))
    /\ loading' = FALSE
    /\ viewerError' = CouldNotLoad
    /\ IF loading \/ viewerError # CouldNotLoad
       THEN Commit(SrcProp(FALSE, refNeumeType, now), <<1>>)
       ELSE NoRender
    /\ UNCHANGED <<refNeumeType, showOriginal, now>>

\* onError while the overlay is shown
handleImageError ==
    /\ loadPending
    /\ ~showOriginal
    /\ Len(tried) < MaxTries
    /\ \/ TryNextOption(overlayOptions(refNeumeType),
                        FindIndex(overlayOptions(refNeumeType), CurrentSrc(imgSrc)))
       \/ GiveUp(overlayOptions(refNeumeType),
                 FindIndex(overlayOptions(refNeumeType), CurrentSrc(imgSrc)))

\* a millisecond passes
ClockTick ==
    /\ now < MaxClock
    /\ now' = now + 1
    /\ UNCHANGED <<refNeumeType, showOriginal, loading, viewerError, renderedSrc,
                   imgSrc, loadPending, tried>>

\***************************************************************************
\* Specifications
\***************************************************************************
\* the application: store, fetch thunk, upload, selection
Init == InitStoreVars /\ UrlIdle /\ ValidateIdle /\ DirIdle /\ PipeIdle /\ ScaleIdle /\ ExportIdle /\ ViewerIdle

Next ==
    \/ FetchRequest /\ UNCHANGED exceptStore
    \/ FetchResolve /\ UNCHANGED exceptStore
    \/ FetchReject /\ UNCHANGED exceptStore
    \/ HandleFileUpload /\ UNCHANGED exceptStore
    \/ ReaderOnload /\ UNCHANGED exceptStore
    \/ SelectNeumeType /\ UNCHANGED exceptStore
    \/ DispatchOther /\ UNCHANGED exceptStore

Spec == Init /\ [][Next]_vars

\* the IIIF URL utilities over a bounded set of URLs
InitUrl == InitUrlVars /\ ValidateIdle /\ StoreIdle /\ DirIdle /\ PipeIdle /\ ScaleIdle /\ ExportIdle /\ ViewerIdle

NextUrl ==
    \/ Render /\ UNCHANGED exceptUrl
    \/ CreateRegion /\ UNCHANGED exceptUrl
    \/ Reparse /\ UNCHANGED exceptUrl

SpecUrl == InitUrl /\ [][NextUrl]_vars

\* validateAnnotations over a bounded set of JSON values
InitValidate == InitValidateVars /\ UrlIdle /\ StoreIdle /\ DirIdle /\ PipeIdle /\ ScaleIdle /\ ExportIdle /\ ViewerIdle

NextValidate == Validate /\ UNCHANGED exceptValidate

SpecValidate == InitValidate /\ [][NextValidate]_vars

\* the directory names of two classes
InitDir == InitDirVars /\ UrlIdle /\ ValidateIdle /\ StoreIdle /\ PipeIdle /\ ScaleIdle /\ ExportIdle /\ ViewerIdle

NextDir == RenderDirs /\ UNCHANGED exceptDir

SpecDir == InitDir /\ [][NextDir]_vars

\* the extraction pipeline, run up to MaxRuns times
InitPipeline == InitPipeVars /\ UrlIdle /\ ValidateIdle /\ StoreIdle /\ DirIdle /\ ScaleIdle /\ ExportIdle /\ ViewerIdle

NextPipeline ==
    \/ StartRun /\ UNCHANGED exceptPipe
    \/ LoadAnnotations /\ UNCHANGED exceptPipe
    \/ ValidateRecords /\ UNCHANGED exceptPipe
    \/ ReportCounts /\ UNCHANGED exceptPipe
    \/ \E w \in Workers : TakeTask(w) /\ UNCHANGED exceptPipe
    \/ \E w \in Workers : FetchOk(w) /\ UNCHANGED exceptPipe
    \/ \E w \in Workers : FetchRetry(w) /\ UNCHANGED exceptPipe
    \/ \E w \in Workers : SkipFailed(w) /\ UNCHANGED exceptPipe
    \/ \E w \in Workers : StoreFile(w) /\ UNCHANGED exceptPipe
    \/ \E w \in Workers : SkipExisting(w) /\ UNCHANGED exceptPipe
    \/ \E w \in Workers : Reclaim(w) /\ UNCHANGED exceptPipe
    \/ \E w \in Workers : AppendRow(w) /\ UNCHANGED exceptPipe
    \/ Interrupt /\ UNCHANGED exceptPipe
    \/ FinishExtracting /\ UNCHANGED exceptPipe
    \/ AbortOnInterrupt /\ UNCHANGED exceptPipe
    \/ Finalize /\ UNCHANGED exceptPipe
    \/ Fatal /\ UNCHANGED exceptPipe
    \/ NextRun /\ UNCHANGED exceptPipe

SpecPipeline == InitPipeline /\ [][NextPipeline]_vars

\* ScaleCorrector applied to one template box
InitScale == InitScaleVars /\ UrlIdle /\ ValidateIdle /\ StoreIdle /\ DirIdle /\ PipeIdle /\ ExportIdle /\ ViewerIdle

NextScale ==
    \/ ApplyScale /\ UNCHANGED exceptScale
    \/ Emit /\ UNCHANGED exceptScale

SpecScale == InitScale /\ [][NextScale]_vars

\* ExportButton's dialog
InitExport ==
    /\ InitExportVars /\ UrlIdle /\ ValidateIdle /\ StoreIdle /\ DirIdle /\ PipeIdle
    /\ ScaleIdle /\ ViewerIdle

NextExport ==
    \/ handleExport /\ UNCHANGED exceptExport
    \/ handleConfirm /\ UNCHANGED exceptExport
    \/ handleClose /\ UNCHANGED exceptExport
    \/ Tick /\ UNCHANGED exceptExport
    \/ TimerFires /\ UNCHANGED exceptExport

SpecExport == InitExport /\ [][NextExport]_vars

\* SimpleReferenceViewer with the overlay images missing
InitViewer ==
    /\ InitViewerVars /\ UrlIdle /\ ValidateIdle /\ StoreIdle /\ DirIdle /\ PipeIdle
    /\ ScaleIdle /\ ExportIdle

NextViewer ==
    \/ toggleView /\ UNCHANGED exceptViewer
    \/ handleImageLoad /\ UNCHANGED exceptViewer
    \/ OriginalFails /\ UNCHANGED exceptViewer
    \/ handleImageError /\ UNCHANGED exceptViewer
    \/ ClockTick /\ UNCHANGED exceptViewer

SpecViewer == InitViewer /\ [][NextViewer]_vars

\***************************************************************************
\* What the properties speak of, read off the URL text itself
\***************************************************************************
AllDigits(t) == t # <<>> /\ \A k \in 1..Len(t) : IsDigit(t[k])

\* t is <int>,<int>,<int>,<int>
IsFourInts(t) ==
    LET p == Split(t, ",") IN Len(p) = 4 /\ \A k \in 1..4 : AllDigits(p[k])

\* t is <int>,<int>,<int>
IsThreeInts(t) ==
    LET p == Split(t, ",") IN Len(p) = 3 /\ \A k \in 1..3 : AllDigits(p[k])

HasSub(s, t) == \E i \in 1..(Len(s) + 1 - Len(t)) : SubSeq(s, i, i + Len(t) - 1) = t

\* the URL contains a token of four comma-separated non-negative integers
\* (such a token starts and ends with a digit)
HasFourIntToken(u) ==
    \E i \in 1..Len(u) :
        /\ IsDigit(u[i])
        /\ \E j \in i..Len(u) : IsDigit(u[j]) /\ IsFourInts(SubSeq(u, i, j))

DefaultJpg == <<"d", "e", "f", "a", "u", "l", "t", ".", "j", "p", "g">>

\* <base>/<x>,<y>,<w>,<h>/<size>/0/default.jpg, the region of positive width
\* and height (an IIIF server refuses a region of zero extent)
WellFormedUrl(u) ==
    LET p == Split(u, "/")
        n == Len(p)
    IN  /\ n >= 5
        /\ p[n] = DefaultJpg
        /\ p[n - 1] = <<"0">>
        /\ p[n - 2] # <<>>
        /\ IsFourInts(p[n - 3])
        /\ DecimalValue(Split(p[n - 3], ",")[3]) > 0
        /\ DecimalValue(Split(p[n - 3], ",")[4]) > 0

\* the region path segment: the one before the size segment
RegionSegment(u) == LET p == Split(u, "/") IN p[Len(p) - 3]

SizeSegment(u) == LET p == Split(u, "/") IN p[Len(p) - 2]

\* the number a region field denotes
RegionField(u, k) == DecimalValue(Split(RegionSegment(u), ",")[k])

\* the URL before "/<region>/<size>/0/default.jpg"
BaseOf(u) ==
    SubSeq(u, 1, Len(u) - (Len(RegionSegment(u)) + Len(SizeSegment(u))
                           + Len(ZeroDefaultJpg) + 2))

\* scheme://host/iiif/<manuscript>/<page>/<x,y,w,h>/<size>/0/default.jpg
ExampleShape(u) ==
    LET p == Split(u, "/")
    IN  /\ WellFormedUrl(u)
        /\ Len(p) = 10
        /\ p[2] = <<>>
        /\ p[4] = <<"i", "i", "i", "f">>

PageSegment(u) == Split(u, "/")[6]

Parsed == upc \in {"parsed", "created", "done"}

SameRegion(a, b) ==
    /\ a.baseUrl = b.baseUrl
    /\ a.x = b.x
    /\ a.y = b.y
    /\ a.width = b.width
    /\ a.height = b.height

\* the record shape of the data model: class a non-empty string, urls a non-empty list
WellFormedRecord(r) ==
    /\ r.js = "object"
    /\ TypeProp(r).js = "string"
    /\ TypeProp(r).text # ""
    /\ IsArray(UrlsProp(r))
    /\ Len(UrlsProp(r).items) > 0

\***************************************************************************
\* Properties
\***************************************************************************
\* C1: for every well-formed region URL, parseIiifUrl returns x, y, width and
\* height equal to the four integers of the region path segment (the segment
\* before the size segment), also when an earlier part of the URL holds
\* another run of four comma-separated integers.
C1_RegionOfSegment ==
    (Parsed /\ WellFormedUrl(url)) =>
        /\ imageInfo # Null
        /\ imageInfo.x = RegionField(url, 1)
        /\ imageInfo.y = RegionField(url, 2)
        /\ imageInfo.width = RegionField(url, 3)
        /\ imageInfo.height = RegionField(url, 4)

\* C2: round trip: for every well-formed region URL u,
\* createRegionUrl(parseIiifUrl(u)) is a region URL that parseIiifUrl resolves
\* to the same baseUrl, x, y, width and height as u.
C2_RoundTrip ==
    (upc = "done" /\ WellFormedUrl(url)) =>
        /\ WellFormedUrl(regionUrl)
        /\ reparsed # Null
        /\ SameRegion(reparsed, imageInfo)

\* C3: for every accepted URL with a region and a size segment, baseUrl is the
\* URL with the region segment, the size segment and what follows removed,
\* and holds neither of the two, whatever the size segment is.
C3_BaseUrlStripped ==
    (Parsed /\ imageInfo # Null /\ WellFormedUrl(url)) =>
        /\ imageInfo.baseUrl = BaseOf(url)
        /\ ~HasSub(imageInfo.baseUrl, <<"/">> \o RegionSegment(url) \o <<"/">> \o SizeSegment(url))

\* C4: every descriptor parseIiifUrl returns has width > 0 and height > 0.
C4_PositiveExtent ==
    (Parsed /\ imageInfo # Null) => (imageInfo.width > 0 /\ imageInfo.height > 0)

\* C5: parseIiifUrl returns null if and only if the URL contains no token of
\* four comma-separated non-negative integers, and no coordinate of a
\* returned descriptor is NaN.
C5_NullIffNoToken ==
    Parsed =>
        /\ (imageInfo = Null) <=> ~HasFourIntToken(url)
        /\ imageInfo # Null =>
              /\ imageInfo.x # NaN
              /\ imageInfo.y # NaN
              /\ imageInfo.width # NaN
              /\ imageInfo.height # NaN

\* C5 witness: a URL holding a run of three integers, but not of four, was
\* parsed and refused.
C5_Witness ==
    /\ Parsed
    /\ imageInfo = Null
    /\ \E i \in 1..Len(url) : \E j \in i..Len(url) : IsThreeInts(SubSeq(url, i, j))

\* C6: for URLs of the shape scheme://host/iiif/<manuscript>/<page>/<x,y,w,h>/
\* <size>/0/default.jpg, pageId is the <page> segment.
C6_PageIdIsPage ==
    (Parsed /\ ExampleShape(url)) =>
        (imageInfo # Null /\ imageInfo.pageId = PageSegment(url))

\* C7: validation accepts a record if and only if its class is a non-empty
\* string and its urls a non-empty list (stated of the collection holding
\* just that record).
C7_AcceptsIffWellFormed ==
    (vpc = "validated" /\ IsArray(candidate) /\ Len(candidate.items) = 1) =>
        (valid <=> WellFormedRecord(candidate.items[1]))

\* C8: validation is per record: a collection that holds a well-formed
\* record is not rejected as a whole because of another, malformed record.
C8_PerRecord ==
    (/\ vpc = "validated"
     /\ IsArray(candidate)
     /\ \E i \in 1..Len(candidate.items) : WellFormedRecord(candidate.items[i]))
        => valid

\* C9: the store's annotations are null or a collection that passes
\* validation, after any sequence of fetches and uploads.
C9_StoreValidated ==
    annotations = JsNull \/ validateAnnotations(annotations)

\* C10: two distinct class strings never get the same output directory name.
C10_DistinctDirs ==
    (dpc = "rendered" /\ neumeTypeA # neumeTypeB) => dirA # dirB

\* the class holds a path separator or a ".." component
HasTraversal(c) ==
    \/ \E k \in 1..Len(c) : c[k] = "/"
    \/ \E k \in 1..Len(Split(c, "/")) : Split(c, "/")[k] = <<".", ".">>

\* C11: no output directory name is produced from a class string that holds a
\* path separator or a ".." component, so that a produced directory is a
\* direct child of the extraction root.
C11_TraversalRejected ==
    dpc = "rendered" =>
        /\ ~HasTraversal(neumeTypeA)
        /\ ~HasTraversal(dirA)

\***************************************************************************
\* Extraction pipeline: ledger, controller, re-runs
\***************************************************************************
RowsOf(l) == {l[k] : k \in 1..Len(l)}

\* C12: ledger causality.  After every step each ledger row has its file on
\* disk, and a row appended by the step is for a file that was already
\* completely written before the step, whatever the number of workers and
\* wherever the run is interrupted or aborted.
C12_LedgerCausality ==
    [][/\ RowsOf(ledger') \subseteq files'
       /\ (RowsOf(ledger') \ RowsOf(ledger)) \subseteq files]_vars

\* a row is in the ledger while another worker holds a file that is written
\* but not yet logged, after an interrupt
C12_Witness ==
    /\ interrupted
    /\ Len(ledger) > 0
    /\ \E w \in Workers : workers[w].stage = "stored"

\* the state after p in the controller's order (p is not terminal)
Successor(p) == Phases[(CHOOSE k \in 1..Len(Phases) : Phases[k] = p) + 1]

\* a step of one run that changes the controller's state
PhaseStep == phase' # phase /\ runNo' = runNo

\* C13 as stated: the controller only moves to the next state of the order
\* INIT, LOADING, VALIDATING, EXTRACTING, FINALIZING, DONE or, from a state
\* other than DONE, to ABORTED on a fatal error; nothing leaves DONE or
\* ABORTED and no state is skipped or revisited.
C13_AsStated ==
    [][PhaseStep =>
        /\ phase \notin Terminal
        /\ \/ phase' = Successor(phase)
           \/ phase' = "ABORTED" /\ abortCause' = "fatal"]_vars

\* C13, amended: the controller only moves forward, one state at a time, in
\* the order INIT, LOADING, VALIDATING, EXTRACTING, FINALIZING, DONE, except
\* that an --analyze-only run goes from VALIDATING straight to DONE (and is
\* the only run that does not enter EXTRACTING after VALIDATING); ABORTED is
\* entered only from a state other than DONE and ABORTED, on a fatal error
\* or, from EXTRACTING, after an external interrupt; nothing leaves DONE or
\* ABORTED and no state is revisited.
C13_Order ==
    [][PhaseStep =>
        /\ phase \notin Terminal
        /\ \/ /\ phase' = Successor(phase)
              /\ phase = "VALIDATING" => ~analyzeOnly
           \/ phase = "VALIDATING" /\ analyzeOnly /\ phase' = "DONE"
           \/ phase' = "ABORTED" /\ abortCause' = "fatal"
           \/ /\ phase' = "ABORTED" /\ abortCause' = "interrupt"
              /\ phase = "EXTRACTING" /\ interrupted]_vars

\* an interrupted run has ended in ABORTED with part of the ledger written
C13_Witness ==
    /\ phase = "ABORTED"
    /\ abortCause = "interrupt"
    /\ Len(ledger) > 0

IsPrefix(a, b) == Len(a) <= Len(b) /\ SubSeq(b, 1, Len(a)) = a
NoDuplicateRows(l) == \A j, k \in 1..Len(l) : l[j] = l[k] => j = k
\* the earlier run logged every image of the annotation input
LoggedAll(l) == Tasks \subseteq RowsOf(l)

ExampleScaled ==
    /\ spc = "emitted"
    /\ box = ExampleBox
    /\ scale = [widthScale |-> DefaultScale, heightScale |-> DefaultScale]

\* C15 as stated: the stated algorithm turns the template box (100,100,50,50)
\* with both scales 1.8 and no clipping into the corrected box (55,55,90,90).
C15_AsStated ==
    ExampleScaled => corrected = Box(55, 55, 90, 90)

\* C15, amended: the stated algorithm turns the template box (100,100,50,50)
\* with both scales 1.8 into the corrected box (80,80,90,90), exactly and
\* without clipping.
C15_Example ==
    ExampleScaled =>
        /\ exact = Box(80 * Unit, 80 * Unit, 90 * Unit, 90 * Unit)
        /\ ClipBox(exact) = exact
        /\ corrected = Box(80, 80, 90, 90)

\* the example has been scaled and returned
C15_Witness ==
    ExampleScaled /\ corrected.width = 90

Abs(v) == IF v < 0 THEN -v ELSE v
NoClip == ClipBox(exact) = exact
Whole(e) ==
    /\ e.x % Unit = 0 /\ e.y % Unit = 0
    /\ e.width % Unit = 0 /\ e.height % Unit = 0

\* the returned descriptor has exactly the scaled sizes and the original centre
ExactlyScaled(c) ==
    /\ 10 * c.width = box.width * scale.widthScale
    /\ 10 * c.height = box.height * scale.heightScale
    /\ 2 * c.x + c.width = 2 * box.x + box.width
    /\ 2 * c.y + c.height = 2 * box.y + box.height

OnloadOf(i) == readers' = RemoveAt(readers, i)

\* C17: when the file selected in NeumeViewer holds valid JSON, its onload
\* makes the store's annotations the parsed content and raises no alert; the
\* 'Invalid JSON file' alert is raised only for content that fails to parse.
C17_UploadReachesStore ==
    [][\A i \in 1..Len(readers) :
        OnloadOf(i) /\ readers[i].text = "json" =>
            /\ annotations' = readers[i].value
            /\ alerted' = alerted]_vars

\* C18: reducer frame.  Every dispatch the logger has seen obeys: a
\* SWITCH_ACTIVE_SELECTION sets activeSelection to its payload and leaves
\* annotations as they were; a FETCH_ANNOTATIONS or UPLOAD_ANNOTATIONS sets
\* annotations to its payload and leaves activeSelection as it was; an action
\* of any other type leaves both fields as they were; and the store holds the
\* state the dispatch produced.
C18_ReducerFrame ==
    logged # NoDispatch =>
        /\ RootState(annotations, activeSelection) = logged.next
        /\ logged.action.type = SWITCH_ACTIVE_SELECTION =>
            /\ logged.next.activeSelection = logged.action.payload
            /\ logged.next.annotations = logged.prev.annotations
        /\ logged.action.type \in {FETCH_ANNOTATIONS, UPLOAD_ANNOTATIONS} =>
            /\ logged.next.annotations = logged.action.payload
            /\ logged.next.activeSelection = logged.prev.activeSelection
        /\ logged.action.type \notin
                {SWITCH_ACTIVE_SELECTION, FETCH_ANNOTATIONS, UPLOAD_ANNOTATIONS} =>
            logged.next = logged.prev

\* a collection is uploaded while a neume type is selected
C18_Witness ==
    /\ logged # NoDispatch
    /\ logged.action.type = UPLOAD_ANNOTATIONS
    /\ logged.prev.activeSelection # ""
    /\ logged.prev.annotations # logged.action.payload

\***************************************************************************
\* ExportButton's dialog
\***************************************************************************
\* C19: in every reachable state of the dialog, exporting and exportComplete
\* are not both true, whatever the interleaving of handleExport, handleConfirm
\* (while the Export button is rendered), handleClose and the firings of the
\* completion timers of earlier confirms.
C19_NotBoth ==
    ~(exporting /\ exportComplete)

\* the timer of an earlier confirm has fired while a later one is pending
C19_Witness ==
    /\ showModal
    /\ exportComplete
    /\ timers # <<>>

\* C20: while the dialog is closed it is fully reset (exporting and
\* exportComplete false, error null), and 'Export Complete!' is shown only
\* after a confirm made since the dialog was last opened.
C20_StaysReset ==
    /\ ~showModal => ~exporting /\ ~exportComplete /\ error = NoError
    /\ showModal /\ exportComplete => confirmedSinceOpen

\* C22: a collection uploaded while the fetchAnnotations request is in flight
\* stays the store's annotations after the request completes: from the
\* upload on, annotations are the last collection the user uploaded.
C22_UploadKept ==
    inFlightUpload # NoUpload => annotations = inFlightUpload.payload

\***************************************************************************
\* SimpleReferenceViewer
\***************************************************************************
FiveInOrder == <<1, 2, 3, 4, 5>>

\* C21: while the overlay is shown and every overlay image fails to load, the
\* options requested are the five overlayOptions in list order, each at most
\* once, never an earlier one again; and once no request is pending all five
\* have been tried, error is 'Could not load any overlay images' and loading
\* is false.
C21_FallbackTerminates ==
    ~showOriginal =>
        /\ IsPrefix(tried, FiveInOrder)
        /\ ~loadPending =>
            /\ tried = FiveInOrder
            /\ viewerError = CouldNotLoad
            /\ ~loading

====
